---- MODULE Spec2Model ----
(***************************************************************************)
(* Envelope expansion integrator of examples/drift_expansion/              *)
(* sc_drift_expansion.ipynb (Python 2 notebook): calc_perveance, Ralston,  *)
(* rprime and calculate_expansion, together with the two notebook session  *)
(* variables the body of calculate_expansion reads (rprime0 and            *)
(* reference_particle).                                                    *)
(*                                                                         *)
(* Numbers.  A Python/numpy float is modelled as a record: a finite        *)
(* fixed-point value v (meaning v / SC), or one of nan, +inf, -inf.        *)
(* Products and quotients are rounded toward zero to the fixed-point grid, *)
(* the square root and the logarithm are rounded toward zero as well.      *)
(* The longitudinal position z is kept exact, as an integer numerator over *)
(* the denominator N * SC.  Currents are in units of 1e6 A.                *)
(***************************************************************************)
EXTENDS Integers, Sequences, FiniteSets, TLC

\* fixed-point scale of the float model: the float x is the integer x * SC
SC == 100
\* largest step count N a call is given
MaxN == 3

----------------------------------------------------------------------------
\* float values

Fin(n) == [k |-> "fin", v |-> n]
NaN == [k |-> "nan", v |-> 0]
PInf == [k |-> "inf", v |-> 1]
NInf == [k |-> "inf", v |-> -1]

IsNaN(x) == x.k = "nan"
IsFin(x) == x.k = "fin"
IsInf(x) == x.k = "inf"

Abs(n) == IF n < 0 THEN -n ELSE n
Sign(n) == IF n < 0 THEN -1 ELSE IF n > 0 THEN 1 ELSE 0
\* integer quotient rounded toward zero (b # 0)
Quo(a, b) == Sign(a) * Sign(b) * (Abs(a) \div Abs(b))
Signed(s) == IF s < 0 THEN NInf ELSE PInf

\* int -> float conversion (an int operand of a float operation)
IntToFloat(n) == Fin(n * SC)

Neg(x) == IF IsNaN(x) THEN NaN ELSE [k |-> x.k, v |-> -x.v]

Add(x, y) ==
    IF IsNaN(x) \/ IsNaN(y) THEN NaN
    ELSE IF IsInf(x) /\ IsInf(y) THEN (IF x.v = y.v THEN x ELSE NaN)
    ELSE IF IsInf(x) THEN x
    ELSE IF IsInf(y) THEN y
    ELSE Fin(x.v + y.v)

Sub(x, y) == Add(x, Neg(y))

Mul(x, y) ==
    IF IsNaN(x) \/ IsNaN(y) THEN NaN
    ELSE IF IsInf(x) \/ IsInf(y)
         THEN (IF x.v = 0 \/ y.v = 0 THEN NaN ELSE Signed(Sign(x.v) * Sign(y.v)))
    ELSE Fin(Quo(x.v * y.v, SC))

\* numpy float64 division: x/0 is +-inf or nan (a warning, no exception)
Div(x, y) ==
    IF IsNaN(x) \/ IsNaN(y) THEN NaN
    ELSE IF IsInf(x) THEN (IF IsInf(y) THEN NaN
                           ELSE Signed(x.v * (IF y.v < 0 THEN -1 ELSE 1)))
    ELSE IF IsInf(y) THEN Fin(0)
    ELSE IF y.v = 0 THEN (IF x.v = 0 THEN NaN ELSE Signed(x.v))
    ELSE Fin(Quo(x.v * SC, y.v))

\* x >= y and x > y on floats: false when either side is nan
Ge(x, y) ==
    /\ ~IsNaN(x) /\ ~IsNaN(y)
    /\ IF IsInf(x) /\ IsInf(y) THEN x.v >= y.v
       ELSE IF IsInf(x) THEN x.v > 0
       ELSE IF IsInf(y) THEN y.v < 0
       ELSE x.v >= y.v
Gt(x, y) == Ge(x, y) /\ x # y

RECURSIVE ISqrt(_)
\* floor of the integer square root
ISqrt(n) ==
    IF n < 2 THEN n
    ELSE LET s == 2 * ISqrt(n \div 4)
         IN  IF (s + 1) * (s + 1) <= n THEN s + 1 ELSE s

\* np.sqrt: nan (with a RuntimeWarning, no exception) for a negative argument
Sqrt(x) ==
    IF IsNaN(x) THEN NaN
    ELSE IF IsInf(x) THEN (IF x.v > 0 THEN PInf ELSE NaN)
    ELSE IF x.v < 0 THEN NaN
    ELSE Fin(ISqrt(x.v * SC))

\* ln 2 on the fixed-point grid
LN2 == (693 * SC) \div 1000

\* ln on [1, 2): 2 * atanh((x-1)/(x+1)), three terms of the series
LnUnit(n) ==
    LET y == ((n - SC) * SC) \div (n + SC)
        y3 == (y * y * y) \div (SC * SC)
        y5 == (y3 * y * y) \div (SC * SC)
    IN  2 * (y + y3 \div 3 + y5 \div 5)

RECURSIVE LnPos(_)
\* ln of a fixed-point value n >= SC (x >= 1)
LnPos(n) == IF n >= 2 * SC THEN LN2 + LnPos(n \div 2) ELSE LnUnit(n)

\* ln of a fixed-point value n > 0: ln x = -ln(1/x) below 1
LnFix(n) == IF n >= SC THEN LnPos(n) ELSE -LnPos((SC * SC) \div n)

\* np.log: -inf at 0 and nan below 0 (a RuntimeWarning, no exception)
Log(x) ==
    IF IsNaN(x) THEN NaN
    ELSE IF IsInf(x) THEN (IF x.v > 0 THEN PInf ELSE NaN)
    ELSE IF x.v < 0 THEN NaN
    ELSE IF x.v = 0 THEN NInf
    ELSE Fin(LnFix(x.v))

----------------------------------------------------------------------------
\* the notebook's functions

\* characteristic current I0 = 3.13e7 A, in the model's unit of 1e6 A
I0 == Fin((313 * SC) \div 10)

\* Python 2 "/" on two ints in a cell compiled without
\* "from __future__ import division": floor division, an int
IntDiv(a, b) == a \div b

\* Python float division: ZeroDivisionError on a zero divisor, so the
\* result is [ok |-> FALSE] there
PyFloatDiv(x, y) ==
    IF IsFin(y) /\ y.v = 0 THEN [ok |-> FALSE, val |-> NaN]
    ELSE [ok |-> TRUE, val |-> Div(x, y)]

Cube(x) == Mul(Mul(x, x), x)

\* calc_perveance(I, ref): (I/I0)*(2/beta**3)*(1/gamma**3); beta and gamma
\* are Python floats, so a zero beta**3 or gamma**3 raises ZeroDivisionError.
\* No other check is made on beta or gamma.
calc_perveance(I, ref) ==
    LET beta == ref.beta
        gamma == ref.gamma
        a == PyFloatDiv(IntToFloat(2), Cube(beta))
        b == PyFloatDiv(IntToFloat(1), Cube(gamma))
    IN  IF ~a.ok \/ ~b.ok THEN [ok |-> FALSE, val |-> NaN]
        ELSE [ok |-> TRUE, val |-> Mul(Mul(Div(I, I0), a.val), b.val)]

\* mutant of Radicand: the two reciprocals of the emittance term swapped
RadicandSwapped(K, emit, r0, rp0, rm) ==
    LET first == Mul(rp0, rp0)
        second == Mul(Mul(emit, emit),
                      Sub(Div(IntToFloat(1), Mul(rm, rm)),
                          Div(IntToFloat(1), Mul(r0, r0))))
        third == Div(Mul(Mul(IntToFloat(2), K), Log(Div(rm, r0))), IntToFloat(4))
    IN  Add(Add(first, second), third)

\* the bracketed expression of rprime: first + second + third
Radicand(K, emit, r0, rp0, rm) ==
    LET first == Mul(rp0, rp0)
        second == Mul(Mul(emit, emit),
                      Sub(Div(IntToFloat(1), Mul(r0, r0)),
                          Div(IntToFloat(1), Mul(rm, rm))))
        third == Div(Mul(Mul(IntToFloat(2), K), Log(Div(rm, r0))), IntToFloat(4))
    IN  Add(Add(first, second), third)

\* rprime(K,emit,r0,rp0,rm): np.sqrt of the radicand, no guard on its sign
rprime(K, emit, r0, rp0, rm) == Sqrt(Radicand(K, emit, r0, rp0, rm))

\* the closure f = lambda r: rprime(Kp,emit,r0,rprime0,r), as the record of
\* the values its free names have during the call
Apply(f, rm) == rprime(f.K, f.emit, f.r0, f.rp0, rm)

\* the radius of Ralston's second slope evaluation: r+(2/3)*k1, where 2/3
\* is the int IntDiv(2, 3) converted to float by the multiplication
RalstonMid(r, h, f) ==
    LET k1 == Mul(h, Apply(f, r))
    IN  Add(r, Mul(IntToFloat(IntDiv(2, 3)), k1))

\* mutant of Ralston: the second term subtracted
RalstonMinus(r, z, h, f) ==
    LET k1 == Mul(h, Apply(f, r))
    IN  Sub(Mul(Fin(SC \div 4), k1),
            Mul(Mul(Fin((3 * SC) \div 4), h), Apply(f, RalstonMid(r, h, f))))

\* Ralston(r,z,h,f): 0.25*k1 + 0.75*h*f(r+(2/3)*k1); z is not read
Ralston(r, z, h, f) ==
    LET k1 == Mul(h, Apply(f, r))
    IN  Add(Mul(Fin(SC \div 4), k1),
            Mul(Mul(Fin((3 * SC) \div 4), h), Apply(f, RalstonMid(r, h, f))))

----------------------------------------------------------------------------
\* the notebook session and one call of calculate_expansion at a time

VARIABLES
    rprime0,             \* session variable rprime0 (cell of the call sites)
    reference_particle,  \* session variable reference_particle
    pc,                  \* "idle", "loop" (in the while loop), "done", "error"
    args,                \* the arguments of the current (or last) call
    ref,                 \* the particle calc_perveance was given in that call
    Kp, ss, f,           \* locals of calculate_expansion
    r, z, points,        \* r; z as a numerator over args.N * SC; the list
    prev                 \* the trajectory the preceding call with the same
                         \* arguments returned, if there was one

vars == <<rprime0, reference_particle, pc, args, ref, Kp, ss, f, r, z, points, prev>>

Half == SC \div 2

\* reference particles: valid; beta = 0; beta < 0; gamma = 1
RefSet == { [beta |-> Fin(Half), gamma |-> IntToFloat(2)],
            [beta |-> Fin(0), gamma |-> IntToFloat(2)],
            [beta |-> Fin(-Half), gamma |-> IntToFloat(2)],
            [beta |-> Fin(Half), gamma |-> IntToFloat(1)] }
\* the particle passed as the argument reference_paricle
RefArgSet == { [beta |-> Fin(Half), gamma |-> IntToFloat(2)] }
SlopeSet == { Fin(-Half), Fin(0), Fin(Half) }
CurrentSet == { Neg(I0), Fin(0), I0 }
R0Set == { IntToFloat(1), IntToFloat(2) }
EmitSet == { Fin(0), IntToFloat(1) }
ZfSet == { IntToFloat(-1), Fin(0), IntToFloat(3) }

ArgSet == [ current : CurrentSet, reference_paricle : RefArgSet, r0 : R0Set,
            rp0 : { Fin(-Half), Fin(Half) }, emit : EmitSet, N : 0..MaxN,
            zf : ZfSet ]

NoArgs == [ current |-> Fin(0), reference_paricle |-> [beta |-> Fin(Half), gamma |-> IntToFloat(2)],
            r0 |-> IntToFloat(1), rp0 |-> Fin(Half), emit |-> Fin(0), N |-> 1,
            zf |-> Fin(0) ]
NoF == [K |-> Fin(0), emit |-> Fin(0), r0 |-> Fin(0), rp0 |-> Fin(0)]
NoRef == [beta |-> Fin(0), gamma |-> Fin(0)]
NoPrev == [has |-> FALSE, points |-> <<>>]

z0 == Fin(0)

Init ==
    /\ rprime0 \in SlopeSet
    /\ reference_particle \in RefSet
    /\ pc = "idle"
    /\ args = NoArgs
    /\ ref = NoRef
    /\ Kp = Fin(0) /\ ss = Fin(0) /\ f = NoF
    /\ r = Fin(0) /\ z = 0 /\ points = <<>>
    /\ prev = NoPrev

Raise ==
    /\ pc' = "error"
    /\ Kp' = Fin(0) /\ ss' = Fin(0) /\ f' = NoF
    /\ r' = Fin(0) /\ z' = 0 /\ points' = <<>>

\* calculate_expansion up to the while loop.  ss = (zf-z0)/N is a Python
\* float division (ZeroDivisionError for N = 0); the body reads the session
\* variables reference_particle and rprime0, not the parameters
\* reference_paricle and rp0.
Enter(a) ==
    LET h == PyFloatDiv(Sub(a.zf, z0), IntToFloat(a.N))
        kp == calc_perveance(a.current, reference_particle)
    IN  IF ~h.ok THEN Raise /\ ref' = NoRef
        ELSE IF ~kp.ok THEN Raise /\ ref' = reference_particle
        ELSE /\ pc' = "loop"
             /\ ref' = reference_particle
             /\ ss' = h.val
             /\ Kp' = kp.val
             /\ f' = [K |-> kp.val, emit |-> a.emit, r0 |-> a.r0, rp0 |-> rprime0]
             /\ r' = a.r0
             /\ z' = 0
             /\ points' = <<>>

\* the first call of calculate_expansion in the session
Call(a) ==
    /\ pc = "idle"
    /\ args' = a
    /\ prev' = NoPrev
    /\ Enter(a)
    /\ UNCHANGED <<rprime0, reference_particle>>

\* the call repeated with identical arguments
CallAgain ==
    /\ pc = "done"
    /\ ~prev.has
    /\ args' = args
    /\ prev' = [has |-> TRUE, points |-> points]
    /\ Enter(args)
    /\ UNCHANGED <<rprime0, reference_particle>>

\* mutant of InLoop: the guard written z <= zf
InLoopInclusive == z <= args.zf.v * args.N

\* z < zf, both over the denominator N * SC
InLoop == z < args.zf.v * args.N

\* mutant of Sample: the sample taken after the increment
SampleAfterStep == <<z + args.zf.v, Add(r, Ralston(r, z, ss, f))>>

\* the pair (z,r) appended to points
Sample == <<z, r>>

\* mutant of StepZ: z advanced by twice the step
StepZDouble(zz) == zz + 2 * args.zf.v

\* z+dz, with dz = ss = (zf-z0)/N exactly: the numerator grows by zf
StepZ(zz) == zz + args.zf.v

\* one iteration of the while loop
LoopStep ==
    /\ pc = "loop"
    /\ InLoop
    /\ points' = Append(points, Sample)
    /\ z' = StepZ(z)
    /\ r' = Add(r, Ralston(r, z, ss, f))
    /\ UNCHANGED <<rprime0, reference_particle, pc, args, ref, Kp, ss, f, prev>>

\* the loop test fails: return points
Return ==
    /\ pc = "loop"
    /\ ~InLoop
    /\ pc' = "done"
    /\ UNCHANGED <<rprime0, reference_particle, args, ref, Kp, ss, f, r, z, points, prev>>

\* a notebook cell assigns rprime0 between calls
SetRprime0 ==
    /\ pc = "done"
    /\ ~prev.has
    /\ \E v \in SlopeSet : v # rprime0 /\ rprime0' = v
    /\ UNCHANGED <<reference_particle, pc, args, ref, Kp, ss, f, r, z, points, prev>>

\* a notebook cell assigns reference_particle between calls
SetReferenceParticle ==
    /\ pc = "done"
    /\ ~prev.has
    /\ \E p \in RefSet : p # reference_particle /\ reference_particle' = p
    /\ UNCHANGED <<rprime0, pc, args, ref, Kp, ss, f, r, z, points, prev>>

Next ==
    \/ \E a \in ArgSet : Call(a)
    \/ CallAgain
    \/ LoopStep
    \/ Return
    \/ SetRprime0
    \/ SetReferenceParticle

Spec == Init /\ [][Next]_vars

----------------------------------------------------------------------------
\* properties

Zero == Fin(0)
InCall == pc \in {"loop", "done"}
\* the call was given N >= 1 and zf > 0
ValidGrid == args.N >= 1 /\ Gt(args.zf, Zero)
Radii == { points[i][2] : i \in 1..Len(points) }

\* C1: for N >= 1 and zf > 0 one sample is appended per iteration (z is the
\* number of samples times the step), the loop never runs more than N
\* iterations, and the returned trajectory has exactly N samples with the
\* loop left at z = zf.
C1_ExactlyNSamples ==
    (InCall /\ ValidGrid) =>
        /\ z = Len(points) * args.zf.v
        /\ Len(points) <= args.N
        /\ (pc = "done" => Len(points) = args.N /\ z = args.zf.v * args.N)

C1_Witness ==
    pc = "done" /\ ValidGrid /\ args.N = MaxN /\ Len(points) = MaxN

\* C2: the slope function of a call is bound to the r0, rp0 and emit
\* arguments of that call and to the perveance of the call's current and
\* reference-particle argument.
C2_SlopeBoundToArguments ==
    InCall =>
        f = [ K |-> calc_perveance(args.current, args.reference_paricle).val,
              emit |-> args.emit, r0 |-> args.r0, rp0 |-> args.rp0 ]

\* C3: a call repeated with identical arguments returns the identical
\* trajectory (and returns at all), whatever was assigned in between.
C3_RepeatedCallIdentical ==
    (prev.has /\ pc \in {"done", "error"}) =>
        (pc = "done" /\ points = prev.points)

\* C4: no returned trajectory contains a NaN radius.
C4_NoNaNReturned ==
    pc = "done" => \A x \in Radii : ~IsNaN(x)

\* C5: calc_perveance returns a value only for beta > 0 and gamma > 1, and
\* for a current >= 0 the value is finite and not negative.
C5_InvalidKinematicsRejected ==
    InCall =>
        /\ Gt(ref.beta, Zero) /\ Gt(ref.gamma, IntToFloat(1))
        /\ (Ge(args.current, Zero) => IsFin(Kp) /\ Ge(Kp, Zero))

\* the call's preconditions in C6
C6_Pre ==
    /\ args.current = Zero /\ Ge(args.rp0, Zero) /\ Gt(args.r0, Zero)
    /\ ValidGrid

\* C6: with current = 0 and rp0 >= 0 the radii of the trajectory never
\* decrease from one sample to the next.
C6_RadiiNonDecreasing ==
    (InCall /\ C6_Pre) =>
        \A i \in 1..(Len(points) - 1) : Ge(points[i + 1][2], points[i][2])

C6_Witness ==
    /\ pc = "done" /\ C6_Pre /\ Len(points) >= 3
    /\ Gt(points[2][2], points[1][2]) /\ Gt(points[3][2], points[2][2])

\* C7: consecutive samples differ in z by exactly the step zf/N (the
\* numerator zf over N * SC), which is positive.
C7_ZStrictlyIncreasing ==
    InCall =>
        \A i \in 1..(Len(points) - 1) :
            /\ points[i + 1][1] - points[i][1] = args.zf.v
            /\ points[i + 1][1] > points[i][1]

C7_Witness ==
    pc = "done" /\ Len(points) >= 3 /\ points[3][1] = 2 * args.zf.v

\* C8: the first sample is (0, r0), and for N >= 1 and zf > 0 a returned
\* trajectory has a first sample.
C8_FirstSample ==
    InCall =>
        /\ (Len(points) >= 1 => points[1] = <<0, args.r0>>)
        /\ (pc = "done" /\ ValidGrid => Len(points) >= 1)

C8_Witness ==
    pc = "done" /\ Len(points) >= 2 /\ r # args.r0 /\ points[1] = <<0, args.r0>>

\* Ralston's increment with the fraction two-thirds
RalstonTwoThirds(rr, h, g) ==
    LET k1 == Mul(h, Apply(g, rr))
        mid == Add(rr, Mul(Fin((2 * SC) \div 3), k1))
    IN  Add(Mul(Fin(SC \div 4), k1), Mul(Mul(Fin((3 * SC) \div 4), h), Apply(g, mid)))

\* C9: the increment a step adds is 0.25*k1 + 0.75*h*f(r + (2/3)*k1) with
\* 2/3 the fraction two-thirds, the second slope taken at r + (2/3)*k1.
C9_RalstonIncrement ==
    (pc = "loop" /\ InLoop) =>
        /\ Ralston(r, z, ss, f) = RalstonTwoThirds(r, ss, f)
        /\ RalstonMid(r, ss, f) = Add(r, Mul(Fin((2 * SC) \div 3), Mul(ss, Apply(f, r))))

\* the call's preconditions in C10
C10_Pre == Ge(Kp, Zero) /\ Gt(args.r0, Zero) /\ Gt(ss, Zero)

\* the slope function's guarantees at radius rm
C10_At(rm) ==
    /\ Ge(rm, args.r0)
    /\ Ge(Radicand(f.K, f.emit, f.r0, f.rp0, rm), Mul(f.rp0, f.rp0))
    /\ Ge(Radicand(f.K, f.emit, f.r0, f.rp0, rm), Zero)
    /\ Apply(f, rm) = rprime(f.K, f.emit, f.r0, Neg(f.rp0), rm)

\* C10: for K >= 0, r0 > 0 and h > 0 every radius of the call, the radius
\* of Ralston's second slope evaluation included, is >= r0; at every slope
\* evaluation the radicand is >= rp0^2 >= 0, and the slope is the same for
\* rp0 and -rp0.
C10_RadiusNeverBelowR0 ==
    (InCall /\ C10_Pre) =>
        /\ Ge(r, args.r0)
        /\ \A x \in Radii : Ge(x, args.r0)
        /\ (pc = "loop" /\ InLoop =>
                C10_At(r) /\ C10_At(RalstonMid(r, ss, f)))

C10_Witness ==
    /\ pc = "loop" /\ InLoop /\ C10_Pre /\ Len(points) >= 2
    /\ Gt(Kp, Zero) /\ Gt(args.emit, Zero) /\ Gt(Zero, f.rp0) /\ Gt(r, args.r0)

\* zf as a numerator over args.N * SC, the denominator of z
ZfNum == args.zf.v * args.N

====
